---- MODULE Spec2Model ----
(***************************************************************************)
(* rpflow: a wrapper around the external rp-cli binary.                    *)
(*                                                                         *)
(* One behaviour of this model is one process run of `rpflow <cmd> ...`    *)
(* (cli.py main).  The files the run touches (the state file, the output   *)
(* file, the report file), the parsed argv, and the answers of the rp-cli  *)
(* child processes are the state.  A step is taken at every subprocess     *)
(* call; everything the handler does between two subprocess calls belongs  *)
(* to the step of the earlier call.                                        *)
(*                                                                         *)
(* Python values: None of an Optional[int] is NoneInt, None of an          *)
(* Optional[str] is NoneStr.  A text (stdout, stderr) is the sequence of   *)
(* its lines together with what json.loads makes of it.  An object is a    *)
(* record whose fields are the attributes the object has; reading an       *)
(* attribute an object does not have raises AttributeError, which is what  *)
(* HasAttr decides.                                                        *)
(***************************************************************************)
EXTENDS Integers, Sequences, FiniteSets, TLC

VARIABLES
    pc,          \* where the run stands: the next subprocess call, or "done"
    args,        \* the parsed argv
    stateFile,   \* the state file (STATE_PATH)
    stateFile0,  \* the state file as the run found it
    state,       \* the RPState load_state returned
    window, tab, workspace,  \* the routing as far as it is resolved
    tool,        \* the rp-cli children: one answer per call
    outFile,     \* what is at args.out
    outFile0,    \* what was at args.out when the run started
    reportFile,  \* what is at args.report_json
    trace,       \* the subprocess calls and file operations so far, in order
    stages,      \* report["stages"]
    exit,        \* the exit status of the process, once it ended
    raised,      \* the exception that ended the run, "" when main returned normally
    error,       \* the RPFlowError main reported
    call, ret    \* a call of a pure function and the value it returned

vars == <<pc, args, stateFile, stateFile0, state, window, tab, workspace,
          tool, outFile, outFile0, reportFile, trace, stages, exit, raised,
          error, call, ret>>

\* Window ids of the model are 1..MaxWindowId.
MaxWindowId == 2

NoneInt == 0 - 1
NoneStr == "<None>"
\* An element of a listing that is no JSON object (a number, say): as a
\* window entry and as a tab entry.
NotAnObject == 0 - 2
NotAnObjectTab == "<NotAnObject>"
\* A JSON number where the state file should hold the tab's name.
IllTypedTab == "<5>"

WindowIds == 1..MaxWindowId
TabNames == {"T1", "T2"}
OptWindow == WindowIds \cup {NoneInt}
OptTab == TabNames \cup {NoneStr}

\* cli.py 17-18
DEFAULT_TAB == "T1"
DEFAULT_WORKSPACE == "GitHub"

\* The exit status rpcli.run gives a timed-out child (rpcli.py 46).
TIMEOUT_CODE == 124
\* The signal _should_retry_builder and the fallback test look for (cli.py 125).
SIGKILL == 9
\* main's exit status for an RPFlowError (cli.py 915).
EXIT_RPFLOW_ERROR == 2
\* The exit status of a failed smoke/preflight run (cli.py 628, 676).
EXIT_CHECK_FAILED == 1
\* The status the interpreter exits with when an exception leaves main
\* uncaught (cli.py 919: raise SystemExit(main()) is never reached).
EXIT_UNCAUGHT == 1

(***************************************************************************)
(* Texts and JSON                                                          *)
(***************************************************************************)
NoJson == [t |-> "invalid", windows |-> <<>>, tabs |-> <<>>]
JsonList(ws) == [t |-> "list", windows |-> ws, tabs |-> <<>>]
JsonTabs(ts) == [t |-> "tabs", windows |-> <<>>, tabs |-> ts]
JsonDict == [t |-> "dict", windows |-> <<>>, tabs |-> <<>>]

Text(ls) == [lines |-> ls, json |-> NoJson]
JsonText(j) == [lines |-> <<"json">>, json |-> j]
Empty == Text(<<>>)

\* str.lower() on the lines the model's rp-cli prints.
Lower(line) ==
    CASE line = "Already on workspace GitHub" -> "already on workspace github"
      [] line = "ALREADY ON WORKSPACE" -> "already on workspace"
      [] line = "already on workspace" -> "already on workspace"
      [] line = "Switched" -> "switched"
      [] line = "Workspace not found" -> "workspace not found"
      [] OTHER -> line

\* "already on workspace" in s, for a lower-cased line s.
ContainsAlready(s) ==
    s \in {"already on workspace github", "already on workspace"}

RECURSIVE SortedSeq(_)
\* The increasing sequence of the numbers of a set.
SortedSeq(S) ==
    IF S = {} THEN <<>>
    ELSE LET m == CHOOSE x \in S : \A y \in S : x <= y
         IN <<m>> \o SortedSeq(S \ {m})

RECURSIVE SortedNames(_)
SortedNames(S) ==
    IF S = {} THEN <<>>
    ELSE IF "T1" \in S THEN <<"T1">> \o SortedNames(S \ {"T1"})
    ELSE LET m == CHOOSE x \in S : TRUE
         IN <<m>> \o SortedNames(S \ {m})

Range(s) == {s[i] : i \in 1..Len(s)}

(***************************************************************************)
(* state.py                                                                *)
(***************************************************************************)
RPState(w, t, ws) == [last_window |-> w, last_tab |-> t, last_workspace |-> ws]

EmptyState == RPState(NoneInt, NoneStr, NoneStr)

\* The state file: absent, not a JSON object, or a JSON object.
MissingFile == [kind |-> "missing", data |-> EmptyState]
GarbageFile == [kind |-> "garbage", data |-> EmptyState]
JsonFile(s) == [kind |-> "json", data |-> s]
\* A JSON object whose last_tab is a number: {"last_tab": 5}.
IllTypedFile == JsonFile(RPState(NoneInt, IllTypedTab, NoneStr))

load_state(file) ==
    IF file.kind = "json" THEN file.data ELSE EmptyState

save_state(s) == JsonFile(s)

(***************************************************************************)
(* rpcli.py                                                                *)
(***************************************************************************)
\* RunResult has the three attributes of its dataclass and no other.
RunResult(code, stdout, stderr) ==
    [code |-> code, stdout |-> stdout, stderr |-> stderr]

\* The value of a call that returns nothing.
NoneResult == [none |-> TRUE]

HasAttr(obj, a) == a \in DOMAIN obj

\* The exception of reading an attribute an object does not have.
ATTR_ERR == "AttributeError"

\* A child process as the tool decides it: whether it outlives the timeout,
\* its exit status, and what it printed (before the kill, if it is killed).
Proc(timesOut, rc, out, err) ==
    [timesOut |-> timesOut, returncode |-> rc, stdout |-> out, stderr |-> err]

TIMEOUT_MARKER == "TIMEOUT: rp-cli exceeded"

\* RPCLI.run: one child, no retry.
run(proc) ==
    IF proc.timesOut
    THEN RunResult(TIMEOUT_CODE, proc.stdout,
                   Text(Append(proc.stderr.lines, TIMEOUT_MARKER)))
    ELSE RunResult(proc.returncode, proc.stdout, proc.stderr)

Ok(v) == [raised |-> "", msg |-> "", ids |-> <<>>, value |-> v]
Raise(kind, msg, ids) == [raised |-> kind, msg |-> msg, ids |-> ids, value |-> <<>>]

\* RPCLI.list_windows on the result of its run.
list_windows(res) ==
    IF res.code # 0 THEN Raise("RPFlowError", "failed to list windows", <<>>)
    ELSE IF res.stdout.json.t = "invalid"
         THEN Raise("RPFlowError", "failed to parse windows json", <<>>)
    ELSE IF res.stdout.json.t = "list" THEN Ok(res.stdout.json.windows)
    ELSE Raise("RPFlowError", "unexpected windows payload", <<>>)

\* RPCLI.list_tabs on the result of its run.
list_tabs(res) ==
    IF res.code # 0 THEN Raise("RPFlowError", "failed to list tabs", <<>>)
    ELSE IF res.stdout.json.t = "invalid"
         THEN Raise("RPFlowError", "failed to parse tabs json", <<>>)
    ELSE IF res.stdout.json.t = "tabs" THEN Ok(res.stdout.json.tabs)
    ELSE Raise("RPFlowError", "unexpected tabs payload", <<>>)

\* safe_workspace_switch that looks for the text without lower-casing.
safe_workspace_switch_case_sensitive(res) ==
    LET merged == res.stdout.lines \o res.stderr.lines
    IN IF res.code = 0 THEN Ok(NoneResult)
       ELSE IF \E i \in 1..Len(merged) : ContainsAlready(merged[i])
            THEN Ok(NoneResult)
       ELSE Raise("RPFlowError", "workspace switch failed", <<>>)

\* safe_workspace_switch that returns whatever the switch answered.
safe_workspace_switch_never_raises(res) ==
    Ok(NoneResult)

\* RPCLI.safe_workspace_switch on the result of its run_exec: it returns
\* None or raises.
safe_workspace_switch(res) ==
    LET merged == res.stdout.lines \o res.stderr.lines
    IN IF res.code = 0 THEN Ok(NoneResult)
       ELSE IF \E i \in 1..Len(merged) : ContainsAlready(Lower(merged[i]))
            THEN Ok(NoneResult)
       ELSE Raise("RPFlowError", "workspace switch failed", <<>>)

IsNotNone(w) == w # NoneInt

\* resolve_window that treats a requested window that is not live like no
\* request at all.
resolve_window_falls_back(windows, requested, remembered) ==
    LET ids == SelectSeq(windows, IsNotNone)
    IN IF NotAnObject \in Range(windows) THEN Raise(ATTR_ERR, "", <<>>)
       ELSE IF requested # NoneInt /\ requested \in Range(ids) THEN Ok(requested)
       ELSE IF remembered # NoneInt /\ remembered \in Range(ids) THEN Ok(remembered)
       ELSE IF Len(ids) = 1 THEN Ok(ids[1])
       ELSE IF Len(ids) = 0
            THEN Raise("RPFlowError", "no Repo Prompt windows are open", <<>>)
       ELSE Raise("RPFlowError", "multiple windows detected; pass --window", ids)

\* resolve_window that takes the first live window when several are live.
resolve_window_first_of_many(windows, requested, remembered) ==
    LET ids == SelectSeq(windows, IsNotNone)
    IN IF NotAnObject \in Range(windows) THEN Raise(ATTR_ERR, "", <<>>)
       ELSE IF requested # NoneInt
       THEN IF requested \notin Range(ids)
            THEN Raise("RPFlowError", "requested window not found; available", ids)
            ELSE Ok(requested)
       ELSE IF remembered # NoneInt /\ remembered \in Range(ids) THEN Ok(remembered)
       ELSE IF Len(ids) >= 1 THEN Ok(ids[1])
       ELSE Raise("RPFlowError", "no Repo Prompt windows are open", <<>>)

\* resolve_window that never looks at the remembered window.
resolve_window_forgets(windows, requested, remembered) ==
    LET ids == SelectSeq(windows, IsNotNone)
    IN IF NotAnObject \in Range(windows) THEN Raise(ATTR_ERR, "", <<>>)
       ELSE IF requested # NoneInt
       THEN IF requested \notin Range(ids)
            THEN Raise("RPFlowError", "requested window not found; available", ids)
            ELSE Ok(requested)
       ELSE IF Len(ids) = 1 THEN Ok(ids[1])
       ELSE IF Len(ids) = 0
            THEN Raise("RPFlowError", "no Repo Prompt windows are open", <<>>)
       ELSE Raise("RPFlowError", "multiple windows detected; pass --window", ids)

resolve_window(windows, requested, remembered) ==
    LET ids == SelectSeq(windows, IsNotNone)
    IN IF NotAnObject \in Range(windows) THEN Raise(ATTR_ERR, "", <<>>)
       ELSE IF requested # NoneInt
       THEN IF requested \notin Range(ids)
            THEN Raise("RPFlowError", "requested window not found; available", ids)
            ELSE Ok(requested)
       ELSE IF remembered # NoneInt /\ remembered \in Range(ids) THEN Ok(remembered)
       ELSE IF Len(ids) = 1 THEN Ok(ids[1])
       ELSE IF Len(ids) = 0
            THEN Raise("RPFlowError", "no Repo Prompt windows are open", <<>>)
       ELSE Raise("RPFlowError", "multiple windows detected; pass --window", ids)

IsName(n) == n # NoneStr

\* ensure_tab_exists that lets a missing tab pass when the default tab is live.
ensure_tab_exists_or_default(tabs, t) ==
    LET names == SelectSeq(tabs, IsName)
    IN IF NotAnObjectTab \in Range(tabs) THEN Raise(ATTR_ERR, "", <<>>)
       ELSE IF t \notin Range(names) /\ "T1" \notin Range(names)
       THEN Raise("RPFlowError", "tab not found; available", names)
       ELSE Ok(t)

ensure_tab_exists(tabs, t) ==
    LET names == SelectSeq(tabs, IsName)
    IN IF NotAnObjectTab \in Range(tabs) THEN Raise(ATTR_ERR, "", <<>>)
       ELSE IF t \notin Range(names)
       THEN Raise("RPFlowError", "tab not found; available", names)
       ELSE Ok(t)

(***************************************************************************)
(* cli.py: routing                                                         *)
(***************************************************************************)
\* a or b for Optional[str] values: None and "" are falsy.
PyOr(a, b) == IF a \in {NoneStr, ""} THEN b ELSE a

\* _prepare_routing without the three strict checks.
_prepare_routing_window_lenient(a, st, windows) ==
    resolve_window(windows, a.window, IF a.strict THEN NoneInt ELSE st.last_window)

\* _prepare_routing from the windows listing to the call of list_tabs:
\* the strict checks and resolve_window.
_prepare_routing_window(a, st, windows) ==
    IF a.strict /\ a.window = NoneInt
    THEN Raise("RPFlowError", "strict mode requires --window", <<>>)
    ELSE IF a.strict /\ a.tab \in {NoneStr, ""}
    THEN Raise("RPFlowError", "strict mode requires --tab", <<>>)
    ELSE IF a.strict /\ a.workspace \in {NoneStr, ""}
    THEN Raise("RPFlowError", "strict mode requires --workspace", <<>>)
    ELSE resolve_window(windows, a.window,
                        IF a.strict THEN NoneInt ELSE st.last_window)

\* _prepare_routing: the tab it asks ensure_tab_exists about.
_prepare_routing_tab(a, st) ==
    PyOr(PyOr(a.tab, IF a.strict THEN NoneStr ELSE st.last_tab), DEFAULT_TAB)

\* _prepare_routing: the workspace it returns.
_prepare_routing_workspace(a, st) ==
    PyOr(PyOr(a.workspace, IF a.strict THEN NoneStr ELSE st.last_workspace),
         DEFAULT_WORKSPACE)

\* cmd_doctor's own window resolution: an RPFlowError is printed, not
\* raised, and leaves window None; any other exception propagates.
doctor_window(a, st, windows) ==
    LET r == resolve_window(windows, a.window,
                            IF a.strict THEN NoneInt ELSE st.last_window)
    IN IF r.raised = "RPFlowError" THEN Ok(NoneInt) ELSE r

\* cmd_doctor's print of the tab names: t.get('name', '?') of every entry.
doctor_tab_names(tabs) ==
    IF NotAnObjectTab \in Range(tabs) THEN Raise(ATTR_ERR, "", <<>>)
    ELSE Ok(tabs)

(***************************************************************************)
(* cli.py: retry policy                                                    *)
(***************************************************************************)
\* _retry_timeout without the floor of base_timeout + 1.
_retry_timeout_no_floor(explicit, scale10, base_timeout) ==
    IF explicit # NoneInt /\ explicit > 0 THEN explicit
    ELSE LET s0 == IF scale10 = 0 THEN 15 ELSE scale10
             s == IF s0 < 10 THEN 10 ELSE s0
         IN (base_timeout * s) \div 10

\* _retry_timeout.  The scale is given in tenths (15 is 1.5); a scale of 0
\* is falsy and stands for the default 1.5.  explicit is NoneInt when
\* --retry-timeout is not given.
_retry_timeout(explicit, scale10, base_timeout) ==
    IF explicit # NoneInt /\ explicit > 0 THEN explicit
    ELSE LET s0 == IF scale10 = 0 THEN 15 ELSE scale10
             s == IF s0 < 10 THEN 10 ELSE s0
             scaled == (base_timeout * s) \div 10
         IN IF base_timeout + 1 >= scaled THEN base_timeout + 1 ELSE scaled

Val(v) == [raised |-> "", value |-> v]
AttrErr == [raised |-> ATTR_ERR, value |-> FALSE]

\* _should_retry_builder: reads res.timed_out, then res.signal.
_should_retry_builder(a, res) ==
    IF ~a.retry_on_timeout THEN Val(FALSE)
    ELSE IF ~HasAttr(res, "timed_out") THEN AttrErr
    ELSE IF res.timed_out THEN Val(TRUE)
    ELSE IF ~HasAttr(res, "signal") THEN AttrErr
    ELSE Val(res.signal = SIGKILL)

\* _stage_classification: reads res.code, then res.classification or
\* res.timed_out and res.signal.
_stage_classification(res, builder_related) ==
    IF ~HasAttr(res, "code") THEN ATTR_ERR
    ELSE IF res.code = 0
    THEN IF ~HasAttr(res, "classification") THEN ATTR_ERR
         ELSE IF res.classification = "already_on_workspace"
              THEN "workspace_already_selected"
         ELSE "ok"
    ELSE IF ~HasAttr(res, "timed_out") THEN ATTR_ERR
    ELSE IF res.timed_out
         THEN (IF builder_related THEN "builder_timeout" ELSE "timeout")
    ELSE IF ~HasAttr(res, "signal") THEN ATTR_ERR
    ELSE IF res.signal # NoneInt
         THEN (IF res.signal = SIGKILL THEN "killed_sigkill" ELSE "killed_sig")
    ELSE IF ~HasAttr(res, "classification") THEN ATTR_ERR
    ELSE PyOr(res.classification, "error")

(***************************************************************************)
(* cli.py: the handler's context.  c.raised names the exception that is    *)
(* propagating, c.exit is the handler's return value once it returned.     *)
(***************************************************************************)
NotReturned == 0 - 1

Ctx(sf, of, rf, tr, sg) ==
    [stateFile |-> sf, outFile |-> of, reportFile |-> rf, trace |-> tr,
     stages |-> sg, raised |-> "", exit |-> NotReturned]

\* A step that is taken twice in a row.
Ev_twice(c, e) == [c EXCEPT !.trace = Append(Append(@, e), e)]

\* The step e is taken: the trace records it.
Ev(c, e) == [c EXCEPT !.trace = Append(@, e)]

RaiseIn(c, kind) == [c EXCEPT !.raised = kind]

Return(c, code) == [c EXCEPT !.exit = code]

NoReport == [written |-> FALSE, exit_code |-> NotReturned, ok |-> FALSE,
             stages |-> <<>>]

\* _add_stage
_add_stage(c, name, res, builder_related) ==
    LET cls == _stage_classification(res, builder_related)
    IN IF cls = ATTR_ERR THEN RaiseIn(c, ATTR_ERR)
       ELSE [c EXCEPT !.stages =
                 Append(@, [name |-> name, classification |-> cls,
                            code |-> res.code])]

\* _emit_failure_hint
_emit_failure_hint(c, res, builder_related) ==
    IF res.code = 0 THEN c
    ELSE IF _stage_classification(res, builder_related) = ATTR_ERR
         THEN RaiseIn(c, ATTR_ERR)
    ELSE c

\* _write_report
_write_report(c, a, exit_code) ==
    IF a.report_json = "" THEN c
    ELSE Ev([c EXCEPT !.reportFile =
                 [written |-> TRUE, exit_code |-> exit_code,
                  ok |-> (exit_code = 0), stages |-> c.stages]],
            "write_report")

\* _write_exception_report
_write_exception_report(c, a) ==
    IF a.report_json = "" THEN c
    ELSE Ev([c EXCEPT !.reportFile =
                 [written |-> TRUE, exit_code |-> EXIT_RPFLOW_ERROR,
                  ok |-> FALSE, stages |-> <<>>]],
            "write_report")

\* _maybe_save_state
_maybe_save_state(c, ok, w, t, ws) ==
    IF ok THEN Ev([c EXCEPT !.stateFile = save_state(RPState(w, t, ws))],
                  "save_state")
    ELSE c

\* _attempt_resume_from_export: the context after it and whether it copied.
_attempt_resume_from_export(c, resume) ==
    IF resume = "" THEN [c |-> c, used |-> FALSE]
    ELSE IF resume # "file" THEN [c |-> c, used |-> FALSE]
    ELSE [c |-> Ev([c EXCEPT !.outFile = "resume"], "copy_resume"),
          used |-> TRUE]

\* out.exists() and out.unlink()
UnlinkOut(c) ==
    IF c.outFile = "absent" THEN c
    ELSE Ev([c EXCEPT !.outFile = "absent"], "unlink_out")

\* One child of the tool run through RPCLI.run: the event, and the file a
\* completed `prompt export` chain leaves at the output path.
Child(c, name, proc, exports) ==
    LET c1 == Ev(c, name)
    IN IF exports # "" /\ ~proc.timesOut /\ proc.returncode = 0
       THEN [c1 EXCEPT !.outFile = exports]
       ELSE c1

(***************************************************************************)
(* cli.py: the handlers.  Each operator below is the part of its handler   *)
(* that follows the last subprocess call the actions take on their own     *)
(* (the workspace switch; for doctor and tools-schema the schema call):    *)
(* c is the context at that point, a the argv, tl the tool's answers to    *)
(* the calls still to come, (w, t, ws) the routing, r the value the last   *)
(* call returned.                                                          *)
(***************************************************************************)
\* primary_action with the state saved as soon as the switch has returned,
\* before the outcome of the primary action is known.
primary_action_saves_first(c, a, tl, w, t, ws, r, name, exports) ==
    LET c0 == _maybe_save_state(c, TRUE, w, t, ws)
        c1 == _add_stage(c0, "workspace_switch", r, FALSE)
    IN IF c1.raised # "" THEN c1
       ELSE LET res == run(tl.primary)
                c3 == _add_stage(Child(c1, "run:primary", tl.primary, exports),
                                 name, res, FALSE)
            IN IF c3.raised # "" THEN c3
               ELSE Return(_write_report(c3, a, res.code), res.code)

\* cmd_exec, cmd_call and cmd_export share their shape: the stage of the
\* switch, one primary action, state, report.
primary_action(c, a, tl, w, t, ws, r, name, exports) ==
    LET c1 == _add_stage(c, "workspace_switch", r, FALSE)
    IN IF c1.raised # "" THEN c1
       ELSE LET c2 == IF exports # "" THEN UnlinkOut(c1) ELSE c1
                res == run(tl.primary)
                c3 == _add_stage(Child(c2, "run:primary", tl.primary, exports),
                                 name, res, FALSE)
            IN IF c3.raised # "" THEN c3
               ELSE LET c4 == _emit_failure_hint(c3, res, FALSE)
                        c5 == _maybe_save_state(c4, res.code = 0, w, t, ws)
                    IN IF c4.raised # "" THEN c4
                       ELSE Return(_write_report(c5, a, res.code), res.code)

cmd_exec(c, a, tl, w, t, ws, r) ==
    primary_action(c, a, tl, w, t, ws, r, "exec", "")

cmd_call(c, a, tl, w, t, ws, r) ==
    primary_action(c, a, tl, w, t, ws, r, "call", "")

cmd_export(c, a, tl, w, t, ws, r) ==
    primary_action(c, a, tl, w, t, ws, r, "export", "selection")

\* The end of cmd_plan_export and of cmd_autopilot once the final builder
\* result res is known: fallback, resume, state, report.
builder_outcome(c, a, tl, w, t, ws, res) ==
    LET timeoutOrKill ==
            IF res.code = TIMEOUT_CODE THEN Val(TRUE)
            ELSE IF ~HasAttr(res, "signal") THEN AttrErr
            ELSE Val(res.signal = SIGKILL)
        finish(cc, code) ==
            Return(_write_report(_maybe_save_state(cc, code = 0, w, t, ws),
                                 a, code), code)
    IN IF timeoutOrKill.raised # "" THEN RaiseIn(c, ATTR_ERR)
       ELSE IF timeoutOrKill.value /\ a.fallback_export_on_timeout
       THEN LET fb == run(tl.fallback)
                c1 == _add_stage(Child(c, "run:fallback", tl.fallback, "selection"),
                                 "fallback_export", fb, FALSE)
            IN IF c1.raised # "" THEN c1
               ELSE IF fb.code # 0
               THEN LET c2 == _emit_failure_hint(c1, fb, FALSE)
                        rs == _attempt_resume_from_export(c2, a.resume_from_export)
                    IN IF c2.raised # "" THEN c2
                       ELSE finish(rs.c, IF rs.used THEN 0 ELSE fb.code)
               ELSE finish(c1, fb.code)
       ELSE IF res.code # 0
       THEN LET c1 == _emit_failure_hint(c, res, TRUE)
            IN IF c1.raised # "" THEN c1
               ELSE IF ~HasAttr(res, "timed_out") THEN RaiseIn(c1, ATTR_ERR)
               ELSE LET rs == _attempt_resume_from_export(c1, a.resume_from_export)
                    IN finish(rs.c, IF rs.used THEN 0 ELSE res.code)
       ELSE finish(c, res.code)

\* cmd_plan_export from `out = Path(args.out)` on, and cmd_autopilot from
\* `if out.exists()` on: the builder, its retry, then builder_outcome.
builder_flow(c, a, tl, w, t, ws, stage, retry_stage) ==
    LET c1 == UnlinkOut(c)
        res == run(tl.primary)
        c2 == _add_stage(Child(c1, "run:builder", tl.primary, "plan"),
                         stage, res, TRUE)
    IN IF c2.raised # "" THEN c2
       ELSE LET retry == _should_retry_builder(a, res)
            IN IF retry.raised # "" THEN RaiseIn(c2, ATTR_ERR)
               ELSE IF retry.value
               THEN LET retry_res == run(tl.retry)
                        c3 == _add_stage(Child(c2, "run:retry", tl.retry, "plan"),
                                         retry_stage, retry_res, TRUE)
                        c4 == _emit_failure_hint(c3, retry_res, TRUE)
                    IN IF c3.raised # "" THEN c3
                       ELSE IF c4.raised # "" THEN c4
                       ELSE builder_outcome(c4, a, tl, w, t, ws, retry_res)
               ELSE builder_outcome(c2, a, tl, w, t, ws, res)

cmd_plan_export(c, a, tl, w, t, ws, r) ==
    LET c1 == _add_stage(c, "workspace_switch", r, FALSE)
    IN IF c1.raised # "" THEN c1
       ELSE builder_flow(c1, a, tl, w, t, ws, "plan_export", "plan_export_retry")

\* _run_smoke_checks: the three children, in this order.
_run_smoke_checks(c, tl) ==
    [c |-> Child(Child(Child(c, "run:check_tabs", tl.check_tabs, ""),
                       "run:check_context", tl.context, ""),
                 "run:check_schema", tl.schema, ""),
     checks |-> <<run(tl.check_tabs), run(tl.context), run(tl.schema)>>]

\* The loop that records the three checks as stages.
add_check_stages(c, checks) ==
    LET c1 == _add_stage(c, "check_tabs", checks[1], FALSE)
        c2 == _add_stage(c1, "check_context", checks[2], FALSE)
        c3 == _add_stage(c2, "check_schema", checks[3], FALSE)
    IN IF c1.raised # "" THEN c1 ELSE IF c2.raised # "" THEN c2 ELSE c3

AnyFailed(checks) == \E i \in 1..Len(checks) : checks[i].code # 0

cmd_smoke(c, a, tl, w, t, ws, r) ==
    LET c1 == _add_stage(c, "workspace_switch", r, FALSE)
    IN IF c1.raised # "" THEN c1
       ELSE LET sc == _run_smoke_checks(c1, tl)
                c2 == add_check_stages(sc.c, sc.checks)
            IN IF c2.raised # "" THEN c2
               ELSE IF AnyFailed(sc.checks)
               THEN Return(_write_report(c2, a, EXIT_CHECK_FAILED),
                           EXIT_CHECK_FAILED)
               ELSE Return(_write_report(
                               _maybe_save_state(c2, TRUE, w, t, ws), a, 0), 0)

cmd_autopilot(c, a, tl, w, t, ws, r) ==
    LET c1 == _add_stage(c, "workspace_switch", r, FALSE)
    IN IF c1.raised # "" THEN c1
       ELSE LET sc == _run_smoke_checks(c1, tl)
                c2 == add_check_stages(sc.c, sc.checks)
            IN IF c2.raised # "" THEN c2
               ELSE IF AnyFailed(sc.checks)
               THEN LET rs == _attempt_resume_from_export(c2, a.resume_from_export)
                        code == IF rs.used THEN 0 ELSE EXIT_CHECK_FAILED
                    IN Return(_write_report(rs.c, a, code), code)
               ELSE builder_flow(c2, a, tl, w, t, ws, "autopilot_plan_export",
                                 "autopilot_plan_retry")

\* cmd_doctor and cmd_tools_schema after their tools-schema call returned r.
cmd_doctor(c, a, r) ==
    LET c1 == _add_stage(c, "tools-schema", r, FALSE)
    IN IF c1.raised # "" THEN c1
       ELSE LET c2 == _emit_failure_hint(c1, r, FALSE)
            IN IF c2.raised # "" THEN c2
               ELSE Return(_write_report(c2, a, 0), 0)

cmd_tools_schema(c, a, r) ==
    LET c1 == _add_stage(c, "tools-schema", r, FALSE)
    IN IF c1.raised # "" THEN c1
       ELSE LET c2 == _emit_failure_hint(c1, r, FALSE)
            IN IF c2.raised # "" THEN c2
               ELSE Return(_write_report(c2, a, r.code), r.code)

\* args.func for the routed commands.
handler(c, a, tl, w, t, ws, r) ==
    CASE a.cmd = "exec" -> cmd_exec(c, a, tl, w, t, ws, r)
      [] a.cmd = "call" -> cmd_call(c, a, tl, w, t, ws, r)
      [] a.cmd = "export" -> cmd_export(c, a, tl, w, t, ws, r)
      [] a.cmd = "plan-export" -> cmd_plan_export(c, a, tl, w, t, ws, r)
      [] a.cmd = "smoke" -> cmd_smoke(c, a, tl, w, t, ws, r)
      [] a.cmd = "autopilot" -> cmd_autopilot(c, a, tl, w, t, ws, r)

\* main: an RPFlowError is reported and becomes exit status 2; any other
\* exception leaves main and the interpreter exits with status 1; otherwise
\* the handler's return value is the exit status.
main(c, a) ==
    IF c.raised = "RPFlowError"
    THEN Return(_write_exception_report(c, a), EXIT_RPFLOW_ERROR)
    ELSE IF c.raised # "" THEN Return(c, EXIT_UNCAUGHT)
    ELSE c

(***************************************************************************)
(* The rp-cli children the model's tool can be.                            *)
(***************************************************************************)
Plain(rc, out, err) == Proc(FALSE, rc, out, err)
TimesOut(out, err) == Proc(TRUE, 0, out, err)

\* No child yet: the call has not been made.
NoProc == Proc(FALSE, 0 - 99, Empty, Empty)

WindowsProcs ==
    { Plain(1, Empty, Text(<<"connection refused">>)),
      TimesOut(Empty, Empty),
      Plain(0, Text(<<"oops">>), Empty),
      Plain(0, JsonText(JsonDict), Empty),
      Plain(0, JsonText(JsonList(<<NoneInt, 1>>)), Empty),
      Plain(0, JsonText(JsonList(<<1, NotAnObject>>)), Empty) }
    \cup { Plain(0, JsonText(JsonList(SortedSeq(S))), Empty) : S \in SUBSET WindowIds }

TabsProcs ==
    { Plain(1, Empty, Text(<<"connection refused">>)),
      Plain(0, Text(<<"oops">>), Empty),
      Plain(0, JsonText(JsonDict), Empty),
      Plain(0, JsonText(JsonTabs(<<"T1", NotAnObjectTab>>)), Empty) }
    \cup { Plain(0, JsonText(JsonTabs(SortedNames(S))), Empty) : S \in SUBSET TabNames }

SwitchProcs ==
    { Plain(0, Text(<<"Switched">>), Empty),
      Plain(1, Text(<<"Already on workspace GitHub">>), Empty),
      Plain(1, Empty, Text(<<"ALREADY ON WORKSPACE">>)),
      Plain(1, Empty, Text(<<"Workspace not found">>)),
      TimesOut(Empty, Empty),
      TimesOut(Text(<<"already on workspace">>), Empty) }

ProcOk == Plain(0, Text(<<"done">>), Empty)
\* A child that fails with an exit status of its own.
TOOL_ERROR_CODE == 3
ProcError == Plain(TOOL_ERROR_CODE, Empty, Text(<<"script error">>))
ProcTimeout == TimesOut(Text(<<"partial">>), Empty)
ProcKilled == Plain(0 - SIGKILL, Empty, Empty)

PrimaryProcs == {ProcOk, ProcError, ProcTimeout, ProcKilled}
SecondProcs == {ProcOk, ProcError, ProcTimeout}
CheckProcs == {ProcOk, ProcError}

NoTool ==
    [windows |-> NoProc, tabs |-> NoProc, switch |-> NoProc, primary |-> NoProc,
     retry |-> NoProc, fallback |-> NoProc, check_tabs |-> NoProc,
     context |-> NoProc, schema |-> NoProc]

\* The tool's answers to the calls a handler can still make once the
\* workspace switch has returned.  A call the argv rules out (a retry
\* without --retry-on-timeout, a fallback without the fallback flag, a
\* check of a command that runs none) gets no answer.
ToolScripts(a, tl) ==
    LET hasChecks == a.cmd \in {"smoke", "autopilot"}
        hasPrimary == a.cmd # "smoke"
        flow == a.cmd \in {"plan-export", "autopilot"}
    IN { [tl EXCEPT !.primary = p, !.retry = r, !.fallback = f,
                    !.check_tabs = k1, !.context = k2, !.schema = k3] :
           p \in (IF hasPrimary THEN PrimaryProcs ELSE {NoProc}),
           r \in (IF flow /\ a.retry_on_timeout THEN SecondProcs ELSE {NoProc}),
           f \in (IF flow /\ a.fallback_export_on_timeout
                  THEN SecondProcs ELSE {NoProc}),
           k1 \in (IF hasChecks THEN CheckProcs ELSE {NoProc}),
           k2 \in (IF hasChecks THEN {ProcOk} ELSE {NoProc}),
           k3 \in (IF hasChecks THEN CheckProcs ELSE {NoProc}) }

(***************************************************************************)
(* The runs of the model: argv, the state file and the output file a run   *)
(* starts with.                                                            *)
(***************************************************************************)
Args(cmd, w, t, ws, strict, retry, fallback, resume, report) ==
    [cmd |-> cmd, window |-> w, tab |-> t, workspace |-> ws, strict |-> strict,
     retry_on_timeout |-> retry, fallback_export_on_timeout |-> fallback,
     resume_from_export |-> resume, report_json |-> report]

RoutedCmds == {"exec", "call", "export", "plan-export", "autopilot", "smoke"}
FlowCmds == {"plan-export", "autopilot"}

StateFiles ==
    {MissingFile, GarbageFile, IllTypedFile}
    \cup { JsonFile(RPState(w, tw[1], tw[2])) :
             w \in OptWindow, tw \in {<<NoneStr, NoneStr>>, <<"T2", "Home">>} }

\* Runs that vary the routing flags and the remembered routing.
RoutingRuns ==
    { [args |-> Args(cmd, w, t, ws, strict, FALSE, FALSE, "", ""),
       stateFile |-> sf, outFile |-> "absent"] :
        cmd \in RoutedCmds, w \in OptWindow, t \in OptTab,
        ws \in {NoneStr, "Work"}, strict \in BOOLEAN, sf \in StateFiles }

\* doctor takes --window and --strict, tools-schema no routing flag.
ProbeRuns ==
    { [args |-> Args("doctor", w, NoneStr, NoneStr, strict, FALSE, FALSE, "", rep),
       stateFile |-> sf, outFile |-> "absent"] :
        w \in OptWindow, strict \in BOOLEAN, rep \in {"", "report.json"},
        sf \in StateFiles }
    \cup
    { [args |-> Args("tools-schema", NoneInt, NoneStr, NoneStr, FALSE, FALSE,
                     FALSE, "", rep),
       stateFile |-> sf, outFile |-> "absent"] :
        rep \in {"", "report.json"}, sf \in StateFiles }

\* Runs that vary the report flag and the output file and, for the
\* commands whose parser has them, the retry, fallback and resume flags.
FlowRuns ==
    { [args |-> Args(cmd, NoneInt, NoneStr, NoneStr, FALSE, retry, fallback,
                     resume, rep),
       stateFile |-> sf, outFile |-> of] :
        cmd \in FlowCmds, retry \in BOOLEAN, fallback \in BOOLEAN,
        resume \in {"", "missing", "dir", "file"}, rep \in {"", "report.json"},
        sf \in {MissingFile, JsonFile(RPState(1, "T1", "Home"))},
        of \in {"absent", "old"} }
    \cup
    { [args |-> Args(cmd, NoneInt, NoneStr, NoneStr, FALSE, FALSE, FALSE, "", rep),
       stateFile |-> sf, outFile |-> of] :
        cmd \in RoutedCmds \ FlowCmds, rep \in {"", "report.json"},
        sf \in {MissingFile, JsonFile(RPState(1, "T1", "Home"))},
        of \in {"absent", "old"} }

Runs == RoutingRuns \cup ProbeRuns \cup FlowRuns

NoError == [msg |-> "", ids |-> <<>>]

NoCall == [explicit |-> NoneInt, scale10 |-> 0, base_timeout |-> 0]

Init ==
    \E r \in Runs :
        /\ pc = "start"
        /\ args = r.args
        /\ stateFile = r.stateFile
        /\ stateFile0 = r.stateFile
        /\ outFile = r.outFile
        /\ outFile0 = r.outFile
        /\ state = EmptyState
        /\ window = NoneInt
        /\ tab = NoneStr
        /\ workspace = NoneStr
        /\ tool = NoTool
        /\ reportFile = NoReport
        /\ trace = <<>>
        /\ stages = <<>>
        /\ exit = NotReturned
        /\ raised = ""
        /\ error = NoError
        /\ call = NoCall
        /\ ret = NotReturned

\* The handler's context from the variables.
Here == Ctx(stateFile, outFile, reportFile, trace, stages)

\* The process ends: c is the context main ends with.
Finish(c) ==
    /\ pc' = "done"
    /\ exit' = c.exit
    /\ raised' = c.raised
    /\ UNCHANGED <<call, ret>>
    /\ stateFile' = c.stateFile
    /\ outFile' = c.outFile
    /\ reportFile' = c.reportFile
    /\ trace' = c.trace
    /\ stages' = c.stages

\* The process ends with the exception e raised in context c: main prints
\* the message of an RPFlowError.
Fail(c, e) ==
    /\ Finish(main(RaiseIn(c, e.raised), args))
    /\ error' = IF e.raised = "RPFlowError" THEN [msg |-> e.msg, ids |-> e.ids]
                ELSE error

(***************************************************************************)
(* Actions                                                                 *)
(***************************************************************************)
\* main calls the handler: RPCLI() looks the binary up, load_state reads
\* the state file (cmd_tools_schema reads no state).
Start ==
    /\ pc = "start"
    /\ \E found \in BOOLEAN :
        IF ~found
        THEN /\ Fail(Ev(Here, "which"), Raise("RPFlowError", "rp-cli not found in PATH", <<>>))
             /\ UNCHANGED <<args, stateFile0, outFile0, state, window, tab,
                            workspace, tool>>
        ELSE /\ pc' = IF args.cmd = "tools-schema" THEN "tools_schema"
                      ELSE "list_windows"
             /\ state' = IF args.cmd = "tools-schema" THEN state
                         ELSE load_state(stateFile)
             /\ trace' = IF args.cmd = "tools-schema" THEN Append(trace, "which")
                         ELSE trace \o <<"which", "load_state">>
             /\ UNCHANGED <<args, stateFile, stateFile0, outFile, outFile0,
                            window, tab, workspace, tool, reportFile, stages,
                            exit, raised, error, call, ret>>

\* rp.list_windows(), then what the handler does with the list up to its
\* next subprocess call: _prepare_routing's strict checks and
\* resolve_window, or cmd_doctor's resolution.
ListWindows ==
    /\ pc = "list_windows"
    /\ \E p \in WindowsProcs :
        LET c == Ev(Here, "run:windows")
            lw == list_windows(run(p))
            rw == _prepare_routing_window(args, state, lw.value)
            dw == doctor_window(args, state, lw.value)
        IN /\ tool' = [tool EXCEPT !.windows = p]
           /\ IF lw.raised # ""
              THEN /\ Fail(c, lw)
                   /\ UNCHANGED <<window, tab>>
              ELSE IF args.cmd = "doctor" /\ dw.raised # ""
              THEN /\ Fail(c, dw)
                   /\ UNCHANGED <<window, tab>>
              ELSE IF args.cmd = "doctor"
              THEN /\ window' = dw.value
                   /\ pc' = IF window' # NoneInt THEN "list_tabs" ELSE "tools_schema"
                   /\ trace' = c.trace
                   /\ UNCHANGED <<tab, stateFile, outFile, reportFile, stages,
                                  exit, raised, error, call, ret>>
              ELSE IF rw.raised # ""
              THEN /\ Fail(c, rw)
                   /\ UNCHANGED <<window, tab>>
              ELSE /\ window' = rw.value
                   /\ tab' = _prepare_routing_tab(args, state)
                   /\ pc' = "list_tabs"
                   /\ trace' = c.trace
                   /\ UNCHANGED <<stateFile, outFile, reportFile, stages, exit,
                                  raised, error, call, ret>>
    /\ UNCHANGED <<args, stateFile0, outFile0, state, workspace>>

\* rp.list_tabs(window), then ensure_tab_exists and the workspace of
\* _prepare_routing; cmd_doctor only prints the tabs.
ListTabs ==
    /\ pc = "list_tabs"
    /\ \E p \in TabsProcs :
        LET c == Ev(Here, "run:tabs")
            lt == list_tabs(run(p))
            et == ensure_tab_exists(lt.value, tab)
            dt == doctor_tab_names(lt.value)
        IN /\ tool' = [tool EXCEPT !.tabs = p]
           /\ IF lt.raised # ""
              THEN /\ Fail(c, lt)
                   /\ UNCHANGED workspace
              ELSE IF args.cmd = "doctor" /\ dt.raised # ""
              THEN /\ Fail(c, dt)
                   /\ UNCHANGED workspace
              ELSE IF args.cmd = "doctor"
              THEN /\ pc' = "tools_schema"
                   /\ trace' = c.trace
                   /\ UNCHANGED <<workspace, stateFile, outFile, reportFile,
                                  stages, exit, raised, error, call, ret>>
              ELSE IF et.raised # ""
              THEN /\ Fail(c, et)
                   /\ UNCHANGED workspace
              ELSE /\ workspace' = _prepare_routing_workspace(args, state)
                   /\ pc' = "switch"
                   /\ trace' = c.trace
                   /\ UNCHANGED <<stateFile, outFile, reportFile, stages, exit,
                                  raised, error, call, ret>>
    /\ UNCHANGED <<args, stateFile0, outFile0, state, window, tab>>

\* rp.safe_workspace_switch(...), and when it returns the rest of the
\* handler, with the tool's answers to the calls the handler still makes.
WorkspaceSwitch ==
    /\ pc = "switch"
    /\ \E p \in SwitchProcs :
        LET c == Ev(Here, "run:switch")
            sw == safe_workspace_switch(run(p))
            tl0 == [tool EXCEPT !.switch = p]
        IN IF sw.raised # ""
           THEN /\ Fail(c, sw)
                /\ tool' = tl0
           ELSE \E tl \in ToolScripts(args, tl0) :
                   /\ Finish(main(handler(c, args, tl, window, tab, workspace,
                                          sw.value), args))
                   /\ tool' = tl
                   /\ UNCHANGED error
    /\ UNCHANGED <<args, stateFile0, outFile0, state, window, tab, workspace>>

\* rp.run(["--tools-schema"]) of cmd_doctor and cmd_tools_schema, and the
\* rest of the handler.
ToolsSchema ==
    /\ pc = "tools_schema"
    /\ \E p \in CheckProcs \cup {ProcTimeout} :
        LET c == Ev(Here, "run:schema")
            r == run(p)
        IN /\ tool' = [tool EXCEPT !.schema = p]
           /\ Finish(main(IF args.cmd = "doctor" THEN cmd_doctor(c, args, r)
                          ELSE cmd_tools_schema(c, args, r), args))
    /\ UNCHANGED <<args, stateFile0, outFile0, state, window, tab, workspace,
                   error>>

Next == Start \/ ListWindows \/ ListTabs \/ WorkspaceSwitch \/ ToolsSchema

Spec == Init /\ [][Next]_vars

(***************************************************************************)
(* _retry_timeout on its own: every base timeout, --retry-timeout and      *)
(* --retry-timeout-scale of the bounds.                                    *)
(***************************************************************************)
\* Base timeouts are 1..MaxTimeout seconds (_effective_timeout returns a
\* positive number), explicit retry timeouts up to MaxTimeout + 2.
MaxTimeout == 6

Scales10 == {0, 5, 10, 15, 20, 30}

RetryInit ==
    /\ pc = "retry_timeout"
    /\ call \in [explicit : {NoneInt, 0} \cup (1..(MaxTimeout + 2)),
                 scale10 : Scales10, base_timeout : 1..MaxTimeout]
    /\ ret = NotReturned
    /\ args = Args("plan-export", NoneInt, NoneStr, NoneStr, FALSE, TRUE, FALSE, "", "")
    /\ stateFile = MissingFile
    /\ stateFile0 = MissingFile
    /\ outFile = "absent"
    /\ outFile0 = "absent"
    /\ state = EmptyState
    /\ window = NoneInt
    /\ tab = NoneStr
    /\ workspace = NoneStr
    /\ tool = NoTool
    /\ reportFile = NoReport
    /\ trace = <<>>
    /\ stages = <<>>
    /\ exit = NotReturned
    /\ raised = ""
    /\ error = NoError

RetryTimeout ==
    /\ pc = "retry_timeout"
    /\ ret' = _retry_timeout(call.explicit, call.scale10, call.base_timeout)
    /\ pc' = "returned"
    /\ UNCHANGED <<args, stateFile, stateFile0, state, window, tab, workspace,
                   tool, outFile, outFile0, reportFile, trace, stages, exit,
                   raised, error, call>>

RetrySpec == RetryInit /\ [][RetryTimeout]_vars

(***************************************************************************)
(* Vocabulary of the properties                                            *)
(***************************************************************************)
Done == pc = "done"

Did(e) == \E i \in 1..Len(trace) : trace[i] = e

Count(e) == Cardinality({i \in 1..Len(trace) : trace[i] = e})

\* The run resolved its routing and safe_workspace_switch returned.
SwitchReturned == Done /\ tool.switch # NoProc /\ error = NoError

FlowRun == SwitchReturned /\ args.cmd \in FlowCmds

Routing == RPState(window, tab, workspace)

\* The state file holds the routing of this run, written by this run.
Persisted == Did("save_state") /\ stateFile = JsonFile(Routing)

\* The tool answers all three smoke/preflight checks with exit status 0.
ChecksPass ==
    tool.check_tabs = ProcOk /\ tool.context = ProcOk /\ tool.schema = ProcOk

PreflightPasses == args.cmd = "autopilot" => ChecksPass

IsTimeoutOrKill(p) == p \in {ProcTimeout, ProcKilled}

\* The tool's first builder child times out or is killed and the argv asks
\* for a retry.
RetryDue == args.retry_on_timeout /\ IsTimeoutOrKill(tool.primary)

\* The child whose result is the (possibly retried) builder result.
FinalBuilder == IF RetryDue THEN tool.retry ELSE tool.primary

FallbackDue == IsTimeoutOrKill(FinalBuilder) /\ args.fallback_export_on_timeout

ResumeFile == args.resume_from_export = "file"

\* The tool's answers leave the run failing at the point where the resume
\* substitution is decided.
StillFailing ==
    \/ args.cmd = "autopilot" /\ ~ChecksPass
    \/ /\ PreflightPasses
       /\ IF FallbackDue THEN tool.fallback # ProcOk ELSE FinalBuilder # ProcOk

\* The exit status of that failure.
FailureCode ==
    IF args.cmd = "autopilot" /\ ~ChecksPass THEN EXIT_CHECK_FAILED
    ELSE IF FallbackDue THEN run(tool.fallback).code
    ELSE run(FinalBuilder).code

C2_FailedRunKeepsState ==
    (Done /\ args.cmd \in RoutedCmds /\ exit # 0) =>
        (stateFile = stateFile0 /\ ~Did("save_state"))

\* A run with remembered routing in the state file that ends in a fatal
\* workspace switch.
C2_Witness ==
    /\ Done
    /\ args.cmd \in RoutedCmds
    /\ exit = EXIT_RPFLOW_ERROR
    /\ error.msg = "workspace switch failed"
    /\ stateFile0.kind = "json"
    /\ Routing # stateFile0.data

(***************************************************************************)
(* C3.  The fallback export runs only after a builder result that is a     *)
(* timeout or a signal-9 kill, with the fallback flag set; after any other *)
(* failing builder result the run takes the resume-or-fail branch and the  *)
(* fallback is never invoked.                                              *)
(***************************************************************************)
C3_FallbackOnlyOnTimeout ==
    FlowRun =>
        /\ Did("run:fallback") => FallbackDue
        /\ (PreflightPasses /\ FinalBuilder = ProcError) =>
              /\ Did("run:builder")
              /\ ~Did("run:fallback")
              /\ IF ResumeFile THEN exit = 0 /\ outFile = "resume"
                 ELSE exit = TOOL_ERROR_CODE

(***************************************************************************)
(* C4.  The builder is run once, and a second time exactly when the retry  *)
(* flag is set and the first result is a timeout or a signal-9 kill; never *)
(* a third time.                                                           *)
(***************************************************************************)
C4_RetryAtMostOnce ==
    (FlowRun /\ PreflightPasses) =>
        /\ Count("run:builder") = 1
        /\ Count("run:retry") = (IF RetryDue THEN 1 ELSE 0)

(***************************************************************************)
(* C5.  As claimed: the retry timeout is at least the base timeout plus 1  *)
(* for every base timeout, --retry-timeout and --retry-timeout-scale.      *)
(***************************************************************************)
C5_Original ==
    pc = "returned" => ret >= call.base_timeout + 1

\* C5 as amended: without a positive --retry-timeout the retry timeout is at
\* least the base timeout plus 1, for every scale; a positive
\* --retry-timeout is used as given.
C5_RetryTimeoutFloor ==
    pc = "returned" =>
        IF call.explicit # NoneInt /\ call.explicit > 0
        THEN ret = call.explicit
        ELSE ret >= call.base_timeout + 1

\* A scale below 1 with no --retry-timeout: the floor decides.
C5_Witness ==
    /\ pc = "returned"
    /\ call.explicit = NoneInt
    /\ call.scale10 = 5
    /\ ret = call.base_timeout + 1

(***************************************************************************)
(* C6.  plan-export whose builder result is a timeout, without fallback,   *)
(* with a resume path that names no file: exit status 124, nothing at the  *)
(* output path, state not persisted.                                       *)
(***************************************************************************)
C6_TimeoutNoFallbackNoResume ==
    (SwitchReturned /\ args.cmd = "plan-export" /\ FinalBuilder = ProcTimeout
       /\ ~args.fallback_export_on_timeout
       /\ args.resume_from_export = "missing") =>
        /\ exit = TIMEOUT_CODE
        /\ outFile = "absent"
        /\ ~Did("copy_resume")
        /\ stateFile = stateFile0

(***************************************************************************)
(* C7.  plan-export whose builder result is a timeout, with fallback, and  *)
(* a fallback export that succeeds: exit status 0, the output file         *)
(* exists, no resume copy, routing persisted.                              *)
(***************************************************************************)
C7_TimeoutFallbackSucceeds ==
    (SwitchReturned /\ args.cmd = "plan-export" /\ FinalBuilder = ProcTimeout
       /\ args.fallback_export_on_timeout /\ tool.fallback = ProcOk) =>
        /\ exit = 0
        /\ outFile = "selection"
        /\ ~Did("copy_resume")
        /\ Persisted

C9_ResumeSubstitution ==
    (FlowRun /\ StillFailing) =>
        IF ResumeFile
        THEN exit = 0 /\ Did("copy_resume") /\ outFile = "resume"
        ELSE ~Did("copy_resume") /\ exit = FailureCode

(***************************************************************************)
(* C10.  A requested window that is not in the live list makes window      *)
(* resolution fail with an error that lists the live ids, whatever is      *)
(* remembered and however many windows are live.                           *)
(***************************************************************************)
\* The ids of the live windows, once the listing has been parsed.
LiveIds == SelectSeq(tool.windows.stdout.json.windows, IsNotNone)

\* list_windows returned a list and the strict checks let resolve_window run.
WindowResolutionRan ==
    /\ args.cmd \in RoutedCmds
    /\ tool.windows # NoProc
    /\ list_windows(run(tool.windows)).raised = ""
    /\ NotAnObject \notin Range(tool.windows.stdout.json.windows)
    /\ args.strict => (args.tab # NoneStr /\ args.workspace # NoneStr)

C10_AbsentRequestedWindowFails ==
    (WindowResolutionRan /\ args.window # NoneInt /\ args.window \notin Range(LiveIds)) =>
        /\ Done
        /\ exit = EXIT_RPFLOW_ERROR
        /\ error = [msg |-> "requested window not found; available", ids |-> LiveIds]
        /\ window = NoneInt
        /\ ~Did("run:tabs")

\* The requested window is absent while the remembered window is the single
\* live one.
C10_Witness ==
    /\ WindowResolutionRan
    /\ args.window # NoneInt
    /\ args.window \notin Range(LiveIds)
    /\ Len(LiveIds) = 1
    /\ state.last_window = LiveIds[1]
    /\ error.ids = LiveIds

(***************************************************************************)
(* C11.  With no window requested and none remembered, window resolution   *)
(* succeeds exactly when one window is live, and then chooses it; with no  *)
(* live window or with several it fails with an error.                     *)
(***************************************************************************)
WindowErrors ==
    {"requested window not found; available", "no Repo Prompt windows are open",
     "multiple windows detected; pass --window"}

\* resolve_window returned w: the run goes on to list the tabs of w.
WindowChosen(w) ==
    /\ window = w
    /\ error.msg \notin WindowErrors
    /\ pc = "list_tabs" \/ Did("run:tabs")

\* resolve_window raised: the run is over with exit status 2.
WindowResolutionFailed(msg, ids) ==
    /\ Done
    /\ exit = EXIT_RPFLOW_ERROR
    /\ error = [msg |-> msg, ids |-> ids]
    /\ window = NoneInt
    /\ ~Did("run:tabs")

\* The rule for a run without a usable requested or remembered window.
OneLiveWindowRule ==
    IF Len(LiveIds) = 1 THEN WindowChosen(LiveIds[1])
    ELSE IF Len(LiveIds) = 0
    THEN WindowResolutionFailed("no Repo Prompt windows are open", <<>>)
    ELSE WindowResolutionFailed("multiple windows detected; pass --window", LiveIds)

C11_SingleLiveWindowRule ==
    (WindowResolutionRan /\ ~args.strict /\ args.window = NoneInt
       /\ state.last_window = NoneInt) => OneLiveWindowRule

\* Several windows are live, none requested or remembered: the run fails.
C11_Witness ==
    /\ WindowResolutionRan /\ ~args.strict
    /\ args.window = NoneInt /\ state.last_window = NoneInt
    /\ Len(LiveIds) = 2
    /\ exit = EXIT_RPFLOW_ERROR
    /\ error.ids = LiveIds

(***************************************************************************)
(* C12.  With no window requested, a remembered window that is still live  *)
(* is chosen however many windows are live; a remembered window that is    *)
(* no longer live is ignored and the one-live-window rule decides.         *)
(***************************************************************************)
C12_RememberedWindowIfLive ==
    (WindowResolutionRan /\ ~args.strict /\ args.window = NoneInt
       /\ state.last_window # NoneInt) =>
        IF state.last_window \in Range(LiveIds)
        THEN WindowChosen(state.last_window)
        ELSE OneLiveWindowRule

\* Two windows are live and the remembered one is the second of them.
C12_Witness ==
    /\ WindowResolutionRan /\ ~args.strict /\ args.window = NoneInt
    /\ Len(LiveIds) = 2
    /\ state.last_window = LiveIds[2]
    /\ window = LiveIds[2]
    /\ Did("run:tabs")

(***************************************************************************)
(* C13.  A workspace-switch response whose stdout or stderr contains       *)
(* "already on workspace" in any letter case raises no error, whatever     *)
(* exit status the tool reported (a timeout's 124 included).               *)
(***************************************************************************)
\* The child printed the text, in one of the spellings of the model's tool.
SaysAlready(p) ==
    \E line \in Range(p.stdout.lines) \cup Range(p.stderr.lines) :
        line \in {"Already on workspace GitHub", "ALREADY ON WORKSPACE",
                  "already on workspace"}

C13_AlreadyOnWorkspaceIsSuccess ==
    (tool.switch # NoProc /\ SaysAlready(tool.switch)) =>
        /\ Done
        /\ error = NoError
        /\ raised # "RPFlowError"
        /\ exit # EXIT_RPFLOW_ERROR

\* The tool exits 1 and prints the text in capitals on stderr.
C13_Witness ==
    /\ Done
    /\ tool.switch = Plain(1, Empty, Text(<<"ALREADY ON WORKSPACE">>))
    /\ error = NoError

(***************************************************************************)
(* C14.  A workspace switch that ends non-zero (a timeout included)        *)
(* without the "already on workspace" text is fatal: the command exits     *)
(* with 2, no primary action (exec, call, export, builder, retry,          *)
(* fallback, smoke or preflight check) is invoked, and the state file is   *)
(* left as it was.                                                         *)
(***************************************************************************)
PrimaryEvents ==
    {"run:primary", "run:builder", "run:retry", "run:fallback",
     "run:check_tabs", "run:check_context", "run:check_schema"}

NoPrimaryAction == \A e \in PrimaryEvents : ~Did(e)

\* The child ended non-zero or was killed at the timeout.
EndsNonZero(p) == p.timesOut \/ p.returncode # 0

C14_FailedSwitchIsFatal ==
    (tool.switch # NoProc /\ EndsNonZero(tool.switch) /\ ~SaysAlready(tool.switch)) =>
        /\ Done
        /\ exit = EXIT_RPFLOW_ERROR
        /\ error.msg = "workspace switch failed"
        /\ NoPrimaryAction
        /\ stateFile = stateFile0
        /\ ~Did("save_state")

\* The switch times out in a run that started with remembered routing.
C14_Witness ==
    /\ Done
    /\ tool.switch = TimesOut(Empty, Empty)
    /\ exit = EXIT_RPFLOW_ERROR
    /\ stateFile0.kind = "json"

(***************************************************************************)
(* C15.  As claimed: strict mode ignores what is remembered and requires   *)
(* --window, --tab and --workspace: every command run with --strict and    *)
(* without one of the three fails with exit status 2 before a workspace    *)
(* switch or a primary action, and with all three the routing used is the  *)
(* flags.                                                                  *)
(***************************************************************************)
\* The windows listing succeeded and printed a list.
WindowsListed ==
    /\ tool.windows # NoProc
    /\ ~EndsNonZero(tool.windows)
    /\ tool.windows.stdout.json.t = "list"
    /\ NotAnObject \notin Range(tool.windows.stdout.json.windows)

MissingFlag ==
    args.window = NoneInt \/ args.tab = NoneStr \/ args.workspace = NoneStr

StrictMessage ==
    IF args.window = NoneInt THEN "strict mode requires --window"
    ELSE IF args.tab = NoneStr THEN "strict mode requires --tab"
    ELSE "strict mode requires --workspace"

StrictMessages ==
    {"strict mode requires --window", "strict mode requires --tab",
     "strict mode requires --workspace"}

\* The run ended with exit status 2 before the tabs were listed.
FailsBeforeRouting ==
    /\ Done
    /\ exit = EXIT_RPFLOW_ERROR
    /\ ~Did("run:tabs") /\ ~Did("run:switch")
    /\ NoPrimaryAction
    /\ stateFile = stateFile0

\* The routing of a run that has reached its workspace switch is the flags.
RoutingIsFlags ==
    (pc = "switch" \/ tool.switch # NoProc) =>
        (window = args.window /\ tab = args.tab /\ workspace = args.workspace)

TabsListed ==
    /\ tool.tabs # NoProc
    /\ ~EndsNonZero(tool.tabs)
    /\ tool.tabs.stdout.json.t = "tabs"
    /\ NotAnObjectTab \notin Range(tool.tabs.stdout.json.tabs)

LiveTabs == SelectSeq(tool.tabs.stdout.json.tabs, IsName)

ExpectedTab ==
    IF args.tab # NoneStr THEN args.tab
    ELSE IF ~args.strict /\ state.last_tab # NoneStr THEN state.last_tab
    ELSE "T1"

ExpectedWorkspace ==
    IF args.workspace # NoneStr THEN args.workspace
    ELSE IF ~args.strict /\ state.last_workspace # NoneStr THEN state.last_workspace
    ELSE "GitHub"

C16_TabAndWorkspacePrecedence ==
    (args.cmd \in RoutedCmds /\ TabsListed) =>
        /\ tab = ExpectedTab
        /\ IF ExpectedTab \in Range(LiveTabs)
           THEN /\ workspace = ExpectedWorkspace
                /\ pc = "switch" \/ Did("run:switch")
                /\ error.msg # "tab not found; available"
           ELSE /\ Done
                /\ exit = EXIT_RPFLOW_ERROR
                /\ error = [msg |-> "tab not found; available", ids |-> LiveTabs]
                /\ ~Did("run:switch")
                /\ stateFile = stateFile0

\* The remembered tab is gone while the default tab is live: the run fails.
C16_Witness ==
    /\ args.cmd \in RoutedCmds /\ TabsListed
    /\ args.tab = NoneStr
    /\ state.last_tab = "T2"
    /\ LiveTabs = <<"T1">>
    /\ exit = EXIT_RPFLOW_ERROR
    /\ error.msg = "tab not found; available"

(***************************************************************************)
(* C17.  doctor always exits 0: whatever the window listing, the window    *)
(* resolution, the tab listing and the tools-schema call answer, doctor    *)
(* reports it, returns 0 once it is done, and never writes the state file. *)
(***************************************************************************)
C17_DoctorAlwaysExitsZero ==
    (args.cmd = "doctor" /\ Did("run:windows")) =>
        /\ Done => (exit = 0 /\ raised = "")
        /\ stateFile = stateFile0
        /\ ~Did("save_state")

(***************************************************************************)
(* C18.  smoke runs the tabs, context and tools-schema checks, in this     *)
(* order, in every run, a failed check notwithstanding; it exits 1 without *)
(* persisting state when a check returned non-zero, and otherwise exits 0  *)
(* and persists the routing it used.                                       *)
(***************************************************************************)
\* The position of the first e in the trace, 0 when there is none.
FirstAt(e) ==
    IF Did(e) THEN CHOOSE i \in 1..Len(trace) :
                      trace[i] = e /\ \A j \in 1..(i - 1) : trace[j] # e
    ELSE 0

C18_SmokeRunsAllChecks ==
    (SwitchReturned /\ args.cmd = "smoke") =>
        /\ Count("run:check_tabs") = 1
        /\ Count("run:check_context") = 1
        /\ Count("run:check_schema") = 1
        /\ FirstAt("run:check_tabs") < FirstAt("run:check_context")
        /\ FirstAt("run:check_context") < FirstAt("run:check_schema")
        /\ raised = ""
        /\ IF ChecksPass THEN exit = 0 /\ Persisted
           ELSE exit = EXIT_CHECK_FAILED /\ stateFile = stateFile0

(***************************************************************************)
(* C19.  Each call of RPCLI.run starts one child and does not retry.  When *)
(* the child outlives the timeout the result has code 124, is flagged as   *)
(* timed out, carries the output captured before the kill and has the      *)
(* TIMEOUT marker appended to its stderr; otherwise the result carries the *)
(* child's exit status and output unchanged.                               *)
(***************************************************************************)
\* What RPCLI.run is claimed to return for the child p.
RunContract(p) ==
    LET r == run(p)
    IN IF p.timesOut
       THEN /\ r.code = TIMEOUT_CODE
            /\ HasAttr(r, "timed_out") /\ r.timed_out
            /\ r.stdout = p.stdout
            /\ r.stderr.lines = Append(p.stderr.lines, TIMEOUT_MARKER)
       ELSE /\ r.code = p.returncode
            /\ r.stdout = p.stdout
            /\ r.stderr = p.stderr

\* The calls the run has made so far, by the event each leaves.
CallsMade ==
    {<<"windows", "run:windows">>, <<"tabs", "run:tabs">>, <<"switch", "run:switch">>}

C19_RunOnceAndTimeoutResult ==
    \A k \in CallsMade :
        tool[k[1]] # NoProc =>
            (Count(k[2]) = 1 /\ RunContract(tool[k[1]]))

(***************************************************************************)
(* C20.  Every environment, routing or listing error ends a command that   *)
(* needs routing with exit status 2: a missing rp-cli binary, a window or  *)
(* tab listing that fails, times out or prints malformed or unexpected     *)
(* JSON, a window that cannot be resolved, a tab that is not live.  No     *)
(* workspace switch and no primary action follows, and the state file is   *)
(* left as it was.                                                         *)
(***************************************************************************)
\* The listing child p is no good: it failed or timed out, or what it
\* printed is no JSON, not the expected list, or a list with an entry that
\* is no object; kind is "list" or "tabs".
BadListing(p, kind) ==
    \/ EndsNonZero(p)
    \/ p.stdout.json.t # kind
    \/ NotAnObject \in Range(p.stdout.json.windows)
    \/ NotAnObjectTab \in Range(p.stdout.json.tabs)

\* The window cannot be resolved from the flag, the state file and the live
\* windows.
Unresolvable ==
    LET remembered == IF args.strict THEN NoneInt ELSE state.last_window
    IN IF args.window # NoneInt THEN args.window \notin Range(LiveIds)
       ELSE /\ ~(remembered # NoneInt /\ remembered \in Range(LiveIds))
            /\ Len(LiveIds) # 1

\* The inputs of the run hold an environment, listing or routing error.
RoutingError ==
    IF tool.windows = NoProc THEN Done
    ELSE IF BadListing(tool.windows, "list") THEN TRUE
    ELSE IF args.strict /\ MissingFlag THEN TRUE
    ELSE IF Unresolvable THEN TRUE
    ELSE IF tool.tabs = NoProc THEN FALSE
    ELSE IF BadListing(tool.tabs, "tabs") THEN TRUE
    ELSE ExpectedTab \notin Range(LiveTabs)

C20_RoutingErrorsExitTwo ==
    (args.cmd \in RoutedCmds /\ RoutingError) =>
        /\ Done
        /\ exit = EXIT_RPFLOW_ERROR
        /\ error # NoError
        /\ ~Did("run:switch")
        /\ NoPrimaryAction
        /\ stateFile = stateFile0
        /\ ~Did("save_state")

(***************************************************************************)
(* save_state and load_state of concurrent rpflow processes on the one     *)
(* state file.  Here stateFile is the text of the file, pc and call are    *)
(* functions of the process, ret is what the reader's load_state returned, *)
(* and trace lists the writers in the order their write_text returned.     *)
(***************************************************************************)
Writers == {"w1", "w2"}
Reader == "r"

\* Names of different lengths, so that payloads have different lengths.
LongNames == {"Compose", "Home"}

\* The routing triples the concurrent runs save.
SavedStates ==
    { RPState(w, t, ws) : w \in WindowIds, t \in {"T1", "Compose"},
                          ws \in {"GitHub"} }

\* json.dumps(payload): the text of a state, one element per short token,
\* two for a long name.
NameText(n) == IF n \in LongNames THEN <<n, "~">> ELSE <<n>>

Encode(s) ==
    <<"{", s.last_window>> \o NameText(s.last_tab) \o NameText(s.last_workspace)
        \o <<"}">>

\* write() of text at offset 0 of a file holding old: what lies beyond the
\* text stays.
WriteAtStart(old, text) ==
    IF Len(old) <= Len(text) THEN text
    ELSE text \o SubSeq(old, Len(text) + 1, Len(old))

\* The state file as load_state sees it: a JSON object when the text is the
\* text of a state, otherwise text json.loads rejects.
FileOf(text) ==
    IF \E s \in SavedStates : Encode(s) = text
    THEN JsonFile(CHOOSE s \in SavedStates : Encode(s) = text)
    ELSE GarbageFile

StateInit ==
    /\ pc = [p \in Writers \cup {Reader} |-> IF p = Reader THEN "load" ELSE "open"]
    /\ call \in [Writers -> SavedStates]
    /\ stateFile0 \in {Encode(s) : s \in SavedStates}
    /\ stateFile = stateFile0
    /\ ret = EmptyState
    /\ trace = <<>>
    /\ args = Args("exec", NoneInt, NoneStr, NoneStr, FALSE, FALSE, FALSE, "", "")
    /\ outFile = "absent"
    /\ outFile0 = "absent"
    /\ state = EmptyState
    /\ window = NoneInt
    /\ tab = NoneStr
    /\ workspace = NoneStr
    /\ tool = NoTool
    /\ reportFile = NoReport
    /\ stages = <<>>
    /\ exit = NotReturned
    /\ raised = ""
    /\ error = NoError

\* save_state, STATE_PATH.write_text: open(mode="w") truncates the file.
OpenTruncate ==
    \E p \in Writers :
        /\ pc[p] = "open"
        /\ stateFile' = <<>>
        /\ pc' = [pc EXCEPT ![p] = "write"]
        /\ UNCHANGED <<args, stateFile0, state, window, tab, workspace, tool,
                       outFile, outFile0, reportFile, trace, stages, exit,
                       raised, error, call, ret>>

\* save_state, STATE_PATH.write_text: the text is written from the start of
\* the file and the file is closed.
WriteText ==
    \E p \in Writers :
        /\ pc[p] = "write"
        /\ stateFile' = WriteAtStart(stateFile, Encode(save_state(call[p]).data))
        /\ pc' = [pc EXCEPT ![p] = "done"]
        /\ trace' = Append(trace, p)
        /\ UNCHANGED <<args, stateFile0, state, window, tab, workspace, tool,
                       outFile, outFile0, reportFile, stages, exit, raised,
                       error, call, ret>>

\* load_state of another process: read_text, json.loads, RPState.
ReadText ==
    /\ pc[Reader] = "load"
    /\ ret' = load_state(FileOf(stateFile))
    /\ pc' = [pc EXCEPT ![Reader] = "done"]
    /\ UNCHANGED <<args, stateFile, stateFile0, state, window, tab, workspace,
                   tool, outFile, outFile0, reportFile, trace, stages, exit,
                   raised, error, call>>

StateNext == OpenTruncate \/ WriteText \/ ReadText

StateSpec == StateInit /\ [][StateNext]_vars

(***************************************************************************)
(* C21.  The state file is replaced atomically: whatever the interleaving  *)
(* of concurrent saves and a load, the load returns the state the file     *)
(* held before or the triple of one of the writers, never an empty or      *)
(* mixed state, and once every writer is done the file holds the triple of *)
(* the writer that finished last.                                          *)
(***************************************************************************)
C21_AtomicStateFile ==
    /\ pc[Reader] = "done" =>
          ret \in {FileOf(stateFile0).data} \cup {call[p] : p \in Writers}
    /\ (\A p \in Writers : pc[p] = "done") =>
          FileOf(stateFile) = JsonFile(call[trace[Len(trace)]])

(***************************************************************************)
(* C22.  In every run of a routed command the events come in this order:   *)
(* the state file is read once, the windows and the tabs are listed, the   *)
(* workspace switch is issued, then the primary action, then the retry,    *)
(* then the fallback, then at most one write of the state file, then the   *)
(* report; no subprocess is started after the state file was written.      *)
(***************************************************************************)
\* The place of an event in the claimed order, 0 for an event it does not
\* name.
Rank(e) ==
    CASE e = "load_state" -> 1
      [] e = "run:windows" -> 2
      [] e = "run:tabs" -> 3
      [] e = "run:switch" -> 4
      [] e \in {"run:primary", "run:builder"} -> 5
      [] e = "run:retry" -> 6
      [] e = "run:fallback" -> 7
      [] e = "save_state" -> 8
      [] e = "write_report" -> 9
      [] OTHER -> 0

IsSubprocess(e) == e \in PrimaryEvents \cup {"run:windows", "run:tabs", "run:switch", "run:schema"}

\* The events of the trace that the order names are in the order, each once.
InClaimedOrder ==
    \A i, j \in 1..Len(trace) :
        (i < j /\ Rank(trace[i]) # 0 /\ Rank(trace[j]) # 0) =>
            Rank(trace[i]) < Rank(trace[j])

NoSubprocessAfterSave ==
    \A i, j \in 1..Len(trace) :
        (i < j /\ trace[i] = "save_state") => ~IsSubprocess(trace[j])

\* The primary action of the command was started.
PrimaryIssued ==
    CASE args.cmd \in {"exec", "call", "export"} -> Did("run:primary")
      [] args.cmd = "plan-export" -> Did("run:builder")
      [] args.cmd = "smoke" -> Did("run:check_tabs")
      [] args.cmd = "autopilot" ->
            Did("run:check_tabs") /\ (ChecksPass => Did("run:builder"))
      [] OTHER -> FALSE

C22_EventOrder ==
    (args.cmd \in RoutedCmds /\ Done /\ Did("load_state")) =>
        /\ Count("load_state") = 1
        /\ Count("save_state") <= 1
        /\ InClaimedOrder
        /\ NoSubprocessAfterSave
        /\ SwitchReturned => PrimaryIssued

(***************************************************************************)
(* C23.  When the builder is retried, the retry result alone decides what  *)
(* follows: a retry that exits 0 gives exit status 0 without fallback or   *)
(* resume; a retry that exits with an ordinary non-zero status goes to     *)
(* resume-or-fail and never to the fallback, the fallback flag and the     *)
(* first attempt's timeout notwithstanding.                                *)
(***************************************************************************)
C23_RetryResultDecides ==
    (FlowRun /\ PreflightPasses /\ RetryDue) =>
        /\ Did("run:retry")
        /\ tool.retry = ProcOk =>
              (exit = 0 /\ ~Did("run:fallback") /\ ~Did("copy_resume"))
        /\ tool.retry = ProcError =>
              /\ ~Did("run:fallback")
              /\ IF ResumeFile THEN exit = 0 /\ Did("copy_resume")
                 ELSE exit = TOOL_ERROR_CODE /\ ~Did("copy_resume")

(***************************************************************************)
(* C24.  In every routed command, when the workspace switch succeeds (exit *)
(* status 0, or non-zero with the "already on workspace" text) the command *)
(* records a workspace_switch stage and goes on to its primary action: a   *)
(* successful switch never ends the run.                                   *)
(***************************************************************************)
\* The switch child succeeded in the sense of safe_workspace_switch.
SwitchSucceeded ==
    /\ tool.switch # NoProc
    /\ ~EndsNonZero(tool.switch) \/ SaysAlready(tool.switch)

C24_SwitchSuccessContinues ==
    (args.cmd \in RoutedCmds /\ SwitchSucceeded) =>
        /\ Len(stages) >= 1 /\ stages[1].name = "workspace_switch"
        /\ PrimaryIssued
        /\ raised = ""

(***************************************************************************)
(* C25.  exec, call, export and tools-schema start their primary action    *)
(* exactly once and return its exit status unchanged; exec, call and       *)
(* export write the state file exactly when that status is 0, and          *)
(* tools-schema never touches the state file.                              *)
(***************************************************************************)
SingleActionCmds == {"exec", "call", "export"}

C25_SingleAction ==
    /\ (args.cmd \in SingleActionCmds /\ SwitchReturned) =>
          /\ Count("run:primary") = 1
          /\ exit = run(tool.primary).code
          /\ Persisted <=> exit = 0
          /\ exit # 0 => stateFile = stateFile0
    /\ (args.cmd = "tools-schema" /\ Done /\ Did("run:schema")) =>
          /\ Count("run:schema") = 1
          /\ exit = run(tool.schema).code
          /\ stateFile = stateFile0
          /\ ~Did("load_state") /\ ~Did("save_state")

(***************************************************************************)
(* C26.  Session continuity: a run that succeeds with routing (w, t, s)    *)
(* leaves exactly (w, t, s) in the state file, and a non-strict run that   *)
(* starts from a state file holding (w, t, s) resolves, field by field, to *)
(* its flag where a flag is given and to the remembered value otherwise,   *)
(* provided that window is in the live list and that tab is a live tab.    *)
(***************************************************************************)
\* The commands that call _maybe_save_state.
SavingCmds == {"exec", "call", "export", "plan-export", "autopilot"}

\* The tool answers every call of the run with exit status 0.
ToolSucceeds ==
    /\ SwitchReturned
    /\ tool.primary = ProcOk
    /\ PreflightPasses

\* The state file the run started from remembers a whole triple.
Remembered ==
    /\ stateFile0.kind = "json"
    /\ stateFile0.data.last_window # NoneInt
    /\ stateFile0.data.last_tab # NoneStr
    /\ stateFile0.data.last_workspace # NoneStr

\* Flag over remembered value, field by field.
NextWindow ==
    IF args.window # NoneInt THEN args.window ELSE stateFile0.data.last_window

NextTab == IF args.tab # NoneStr THEN args.tab ELSE stateFile0.data.last_tab

NextWorkspace ==
    IF args.workspace # NoneStr THEN args.workspace
    ELSE stateFile0.data.last_workspace

RoutingResolved == pc = "switch" \/ tool.switch # NoProc

\* The second half of the claim on its own.
ResolvesToRemembered ==
    (/\ args.cmd \in RoutedCmds /\ ~args.strict /\ Remembered
     /\ WindowsListed /\ NextWindow \in Range(LiveIds)
     /\ TabsListed /\ NextTab \in Range(LiveTabs)) =>
        /\ RoutingResolved
        /\ Routing = RPState(NextWindow, NextTab, NextWorkspace)

TermRuns ==
    { r \in FlowRuns \cup ProbeRuns :
        r.stateFile = MissingFile /\ r.outFile = "absent" /\ r.args.report_json = "" }

TermInit ==
    /\ Init
    /\ \E r \in TermRuns :
          args = r.args /\ stateFile = r.stateFile /\ outFile = r.outFile

\* Every subprocess returns, normally or through its timeout: the step
\* that waits for it is eventually taken.
FairSpec == TermInit /\ [][Next]_vars /\ WF_vars(Next)

\* The number of subprocesses the run has started.
Started == Cardinality({i \in 1..Len(trace) : IsSubprocess(trace[i])})

PlanExportCalls ==
    {"run:windows", "run:tabs", "run:switch", "run:builder", "run:retry",
     "run:fallback"}

PreflightCalls == {"run:check_tabs", "run:check_context", "run:check_schema"}

\* The subprocesses the command may start.
AllowedCalls ==
    CASE args.cmd = "plan-export" -> PlanExportCalls
      [] args.cmd = "autopilot" -> PlanExportCalls \cup PreflightCalls
      [] OTHER -> {e \in Range(trace) : IsSubprocess(e)}

BoundedCalls ==
    /\ \A i \in 1..Len(trace) : IsSubprocess(trace[i]) =>
          (trace[i] \in AllowedCalls /\ Count(trace[i]) = 1)
    /\ Started <= Cardinality(AllowedCalls)
    /\ (args.cmd = "plan-export" => Started <= 6)
    /\ (args.cmd = "autopilot" => Started <= 9)

Terminated == Done /\ exit \in {0, 1, 2, TOOL_ERROR_CODE, EXIT_CHECK_FAILED, TIMEOUT_CODE}

ReportAsked == args.report_json # ""

C28_ReportWrittenOnce ==
    (Done /\ ReportAsked) =>
        /\ Count("write_report") = 1
        /\ trace[Len(trace)] = "write_report"
        /\ reportFile.written
        /\ reportFile.exit_code = exit
        /\ reportFile.ok <=> exit = 0
        /\ reportFile.stages = stages
        /\ (args.cmd \in RoutedCmds /\ SwitchReturned) =>
              (Len(stages) >= 1 /\ stages[1].name = "workspace_switch")

(***************************************************************************)
(* C29.  A missing, unreadable or malformed state file never makes a       *)
(* command fail: load_state yields the empty state, and the run resolves   *)
(* its window, tab and workspace, or fails to, exactly as a first run with *)
(* the same flags and the same listings does.                              *)
(***************************************************************************)
\* The state file the run started from is absent, is no JSON object, or is
\* a JSON object with a field of the wrong type.
Unusable == stateFile0.kind \in {"missing", "garbage"} \/ stateFile0 = IllTypedFile

WindowsAnswered ==
    tool.windows # NoProc /\ list_windows(run(tool.windows)).raised = ""

TabsAnswered == tool.tabs # NoProc /\ list_tabs(run(tool.tabs)).raised = ""

\* The run ended the way the exception e ends it.
EndedBy(e) ==
    /\ Done
    /\ exit = (IF e.raised = "RPFlowError" THEN EXIT_RPFLOW_ERROR ELSE EXIT_UNCAUGHT)
    /\ e.raised = "RPFlowError" => error = [msg |-> e.msg, ids |-> e.ids]

\* The window step of the run is the window step of a first run.
WindowAsFirstRun ==
    LET rw == _prepare_routing_window(args, EmptyState,
                                      list_windows(run(tool.windows)).value)
    IN IF rw.raised # "" THEN EndedBy(rw)
       ELSE window = rw.value /\ tab = _prepare_routing_tab(args, EmptyState)

\* The tab and workspace step of the run is that of a first run.
TabAsFirstRun ==
    LET et == ensure_tab_exists(list_tabs(run(tool.tabs)).value,
                                _prepare_routing_tab(args, EmptyState))
    IN IF et.raised # "" THEN EndedBy(et)
       ELSE /\ RoutingResolved
            /\ workspace = _prepare_routing_workspace(args, EmptyState)

C29_UnusableStateIsFirstRun ==
    (args.cmd \in RoutedCmds /\ Unusable /\ Did("load_state")) =>
        /\ state = EmptyState
        /\ WindowsAnswered => WindowAsFirstRun
        /\ TabsAnswered => TabAsFirstRun

====
